---- MODULE Spec2Model ----
(***************************************************************************)
(* Model of src/src/index.ts (mcp-ripgrep): the RipgrepServer class.       *)
(*                                                                         *)
(* Strings the program inspects are sequences of tokens, so that prefix    *)
(* tests, splitting and replacement are computed and not assumed:          *)
(*   - a path is a sequence of one-character strings, "/ab" being          *)
(*       <<"/", "a", "b">> and "/a/b" being <<"/", "a", "/", "b">>;       *)
(*   - a root uri is the token "file://" followed by a path;               *)
(*   - the engine's standard output is a sequence of tokens: "\n", " ",    *)
(*       and whole JSON texts or fragments ("M1", "B", "N", "X").          *)
(* A JavaScript object is a record; a property that is undefined is a      *)
(* field that is missing from the record.                                  *)
(***************************************************************************)
EXTENDS Integers, Sequences, FiniteSets, TLC

\* ------------------------------------------------------------------ bounds

\* Longest root list the authority replies with.
MaxRoots == 2

\* Most tokens the engine writes to its standard output in one run.
MaxOut == 3

\* ------------------------------------------------------- program constants

\* index.ts:159   max_results = 1000
DefaultMaxResults == 1000

\* index.ts:159   max_matched_files = 100
DefaultMaxMatchedFiles == 100

\* index.ts:22    defaultRipgrepArgs
defaultRipgrepArgs == << <<"--json">>, <<"--no-heading">> >>

\* ----------------------------------------------------------- string helpers

Range(s) == {s[i] : i \in 1..Len(s)}

SeqsUpTo(S, n) == UNION {[1..k -> S] : k \in 0..n}

FirstIndex(s, x) == CHOOSE i \in 1..Len(s) : s[i] = x /\ \A j \in 1..(i-1) : s[j] # x

\* String.prototype.startsWith
StartsWith(s, t) == Len(t) <= Len(s) /\ SubSeq(s, 1, Len(t)) = t

\* String.prototype.split(sep) for a one-token separator: the pieces between
\* the separators, empty pieces kept ("a\n".split("\n") is ["a", ""]).
RECURSIVE Split(_, _)
Split(s, sep) ==
    IF sep \notin Range(s)
    THEN <<s>>
    ELSE LET i == FirstIndex(s, sep)
         IN  <<SubSeq(s, 1, i - 1)>> \o Split(SubSeq(s, i + 1, Len(s)), sep)

\* String.prototype.replace(x, "") for a one-token x: the FIRST occurrence
\* goes, wherever it is; nothing changes when there is none.
RemoveFirst(s, x) ==
    IF x \notin Range(s)
    THEN s
    ELSE LET i == FirstIndex(s, x)
         IN  SubSeq(s, 1, i - 1) \o SubSeq(s, i + 1, Len(s))

Scheme == "file://"

\* Variant: the uri is left as it is.
StripSchemeIdentity(uri) == uri

\* root.uri.replace("file://", "")
StripScheme(uri) == RemoveFirst(uri, Scheme)

\* ------------------------------------------------------------ path.resolve

\* The working directory of the server process, "/w".
Cwd == <<"/", "w">>

IsAbsolute(p) == p # <<>> /\ p[1] = "/"

\* The segments of a path with "", "." dropped and ".." applied; ".." at the
\* top stays at the top.
RECURSIVE NormalizeSegments(_, _)
NormalizeSegments(segs, stack) ==
    IF segs = <<>>
    THEN stack
    ELSE LET h == Head(segs)
         IN  IF h = <<>> \/ h = <<".">>
             THEN NormalizeSegments(Tail(segs), stack)
             ELSE IF h = <<".", ".">>
             THEN NormalizeSegments(Tail(segs),
                      IF stack = <<>> THEN <<>> ELSE SubSeq(stack, 1, Len(stack) - 1))
             ELSE NormalizeSegments(Tail(segs), Append(stack, h))

RECURSIVE JoinSegments(_)
JoinSegments(segs) ==
    IF segs = <<>> THEN <<>> ELSE <<"/">> \o Head(segs) \o JoinSegments(Tail(segs))

CanonicalSegments(p) ==
    NormalizeSegments(Split(IF IsAbsolute(p) THEN p ELSE Cwd \o <<"/">> \o p, "/"), <<>>)

\* path.resolve(p): absolute, no "." or ".." segment, no doubled or trailing
\* separator; the top directory is "/".
PathResolve(p) ==
    LET segs == CanonicalSegments(p)
    IN  IF segs = <<>> THEN <<"/">> ELSE JoinSegments(segs)

\* ------------------------------------------------------------- the inputs

\* Roots the authority may offer (interface Root, index.ts:14-17):
\* file:///a named n1, and file:///b/ (a trailing separator) without a name.
RootA == [uri |-> <<Scheme, "/", "a">>, name |-> "n1"]
RootB == [uri |-> <<Scheme, "/", "b", "/">>]

RootChoices == {RootA, RootB}

\* The root lists a roots/list reply may carry.
RootLists == SeqsUpTo(RootChoices, MaxRoots)

\* A reply of the authority to roots/list: a root list, or a failure (the
\* client offers no roots capability, the request times out, the transport
\* is closed, the reply does not parse).
AuthorityReplies == {[ok |-> TRUE, roots |-> rs] : rs \in RootLists} \cup {[ok |-> FALSE]}

\* The explicit paths of a request: "", "/a", "/ab", "/a/../b".
PathChoices ==
    { <<>>, <<"/", "a">>, <<"/", "a", "b">>, <<"/", "a", "/", ".", ".", "/", "b">> }

\* The scope fields of a request: no path with every root_name, and every
\* path with no root_name and with the name of no root.
ScopeChoices ==
    LET none  == {<<>>}
        paths == {[path |-> p] : p \in PathChoices}
        names == {[root_name |-> n] : n \in {"", "n1", "n3"}}
    IN  {n : n \in none \cup names}
        \cup {p @@ n : p \in paths, n \in none \cup {[root_name |-> "n3"]}}

PatternChoices == {<<>>, [pattern |-> ""], [pattern |-> "foo"]}

\* The options of a request, when it gives them.
GivenOptions ==
    [case_sensitive |-> TRUE, context_lines |-> 2, max_results |-> 0,
     max_matched_files |-> 5]

\* The arguments of a ripgrep_search call: every pattern with every scope
\* and the options defaulted, and two requests that give the options.
SearchArgs ==
    {[pattern |-> "foo"] @@ s : s \in ScopeChoices}
    \cup {p @@ s : p \in PatternChoices, s \in {<<>>, [path |-> <<"/", "a">>]}}
    \cup {[pattern |-> "foo"] @@ s @@ GivenOptions : s \in {<<>>, [path |-> <<"/", "a">>]}}

\* The values a request may give each option (index.ts:159); <<>> leaves the
\* option out.
CaseChoices == {<<>>, [case_sensitive |-> FALSE], [case_sensitive |-> TRUE]}
ContextChoices == {<<>>, [context_lines |-> -1], [context_lines |-> 0], [context_lines |-> 2]}
MaxResultsChoices == {<<>>, [max_results |-> 0], [max_results |-> 7]}
MaxMatchedFilesChoices == {<<>>, [max_matched_files |-> 0], [max_matched_files |-> 5]}

OptionChoices ==
    {c @@ x @@ r @@ f : c \in CaseChoices, x \in ContextChoices,
                        r \in MaxResultsChoices, f \in MaxMatchedFilesChoices}

\* Requests with every combination of options: a plain pattern and one with
\* regex metacharacters, on all roots or on "/a".
OptionArgs ==
    {[pattern |-> p] @@ s @@ o :
        p \in {"foo", "a.*b"}, s \in {<<>>, [path |-> <<"/", "a">>]}, o \in OptionChoices}

\* The exit codes of the engine: 0 matches, 1 no match, 2 an error.
ExitCodes == {0, 1, 2}

\* Tokens of the engine's standard output: a line break, a blank, two match
\* records, a begin record, a JSON object without a type, the JSON text
\* null, and a fragment that is no JSON text.
OutTokens == {"\n", " ", "M1", "M2", "B", "O", "N", "X"}

\* --------------------------------------------------------- JavaScript values

Has(obj, f) == f \in DOMAIN obj

\* Variant: only undefined is falsy.
TruthyStringIfDefined(obj, f) == Has(obj, f)

\* if (x) for an optional string: undefined and "" are falsy.
TruthyString(obj, f) == Has(obj, f) /\ obj[f] # ""

\* if (x) for an optional path.
TruthyPath(obj, f) == Has(obj, f) /\ obj[f] # <<>>

\* const { f = d } = args
Default(obj, f, d) == IF Has(obj, f) THEN obj[f] ELSE d

\* Array.prototype.join(sep)
RECURSIVE Join(_, _)
Join(strs, sep) ==
    IF strs = <<>> THEN <<>>
    ELSE IF Len(strs) = 1 THEN <<strs[1]>>
    ELSE <<strs[1], sep>> \o Join(Tail(strs), sep)

\* ------------------------------------------------------------ the registry

\* root.name === root_name, root_name a non-empty string
NameIs(root, rn) == Has(root, "name") /\ root.name = rn

\* availableRoots.find((root) => root.name === root_name): the index of the
\* first root of that name, 0 when there is none.
FindRoot(roots, rn) ==
    IF \E i \in 1..Len(roots) : NameIs(roots[i], rn)
    THEN CHOOSE i \in 1..Len(roots) :
            NameIs(roots[i], rn) /\ \A j \in 1..(i-1) : ~NameIs(roots[j], rn)
    ELSE 0

\* availableRoots.map((r) => r.name).join(", "): an undefined name joins as "".
AvailableNames(roots) ==
    Join([i \in 1..Len(roots) |-> IF Has(roots[i], "name") THEN roots[i].name ELSE ""], ", ")

\* Variant: the registry is always found empty.
RegistryIsEmptyAlways(roots) == TRUE

\* Variant: the registry is never found empty.
RegistryIsEmptyNever(roots) == FALSE

\* index.ts:166  this.availableRoots.length === 0
RegistryIsEmpty(roots) == Len(roots) = 0

\* Variant: a registry of one root is not checked against.
BoundaryCheckSkipsSingle(roots) == Len(roots) > 1

\* index.ts:200  this.availableRoots.length > 0
BoundaryCheckApplies(roots) == Len(roots) > 0

\* index.ts:201-206  the boundary check of one search path
IsWithinRoots(searchPath, roots) ==
    \E i \in 1..Len(roots) :
        StartsWith(PathResolve(searchPath), PathResolve(StripScheme(roots[i].uri)))

\* ------------------------------------------------------- scope resolution

\* index.ts:187  availableRoots.map((root) => root.uri.replace("file://", ""))
RootPaths(roots) == [i \in 1..Len(roots) |-> StripScheme(roots[i].uri)]

\* Variant: root_name is looked at before path.
ScopeOfRootNameFirst(a, roots) ==
    IF TruthyString(a, "root_name") /\ FindRoot(roots, a.root_name) = 0
    THEN [kind |-> "RootNotFound", root_name |-> a.root_name,
          available |-> AvailableNames(roots)]
    ELSE IF TruthyString(a, "root_name")
    THEN [kind |-> "paths",
          paths |-> <<StripScheme(roots[FindRoot(roots, a.root_name)].uri)>>]
    ELSE IF TruthyPath(a, "path")
    THEN [kind |-> "paths", paths |-> <<a.path>>]
    ELSE IF Len(roots) > 0
    THEN [kind |-> "paths", paths |-> RootPaths(roots)]
    ELSE [kind |-> "NoSearchPaths"]

\* index.ts:170-192: the search paths of a request against the registry, or
\* the error thrown.
ScopeOf(a, roots) ==
    IF TruthyPath(a, "path")
    THEN [kind |-> "paths", paths |-> <<a.path>>]
    ELSE IF TruthyString(a, "root_name")
    THEN LET i == FindRoot(roots, a.root_name)
         IN  IF i = 0
             THEN [kind |-> "RootNotFound", root_name |-> a.root_name,
                   available |-> AvailableNames(roots)]
             ELSE [kind |-> "paths", paths |-> <<StripScheme(roots[i].uri)>>]
    ELSE IF Len(roots) > 0
    THEN [kind |-> "paths", paths |-> RootPaths(roots)]
    ELSE [kind |-> "NoSearchPaths"]

\* --------------------------------------------------------- argument vector

\* Variant: --context is pushed whenever context_lines is not negative.
BuildArgsContextAlways(a, paths) ==
    defaultRipgrepArgs
    \o (IF ~Default(a, "case_sensitive", FALSE) THEN << <<"--ignore-case">> >> ELSE <<>>)
    \o (IF Default(a, "context_lines", 0) >= 0
        THEN << <<"--context=", ToString(Default(a, "context_lines", 0))>> >> ELSE <<>>)
    \o (IF Default(a, "max_results", DefaultMaxResults) > 0
        THEN << <<"--max-results=", ToString(Default(a, "max_results", DefaultMaxResults))>> >>
        ELSE <<>>)
    \o (IF Default(a, "max_matched_files", DefaultMaxMatchedFiles) > 0
        THEN << <<"--max-matched-files=",
                  ToString(Default(a, "max_matched_files", DefaultMaxMatchedFiles))>> >>
        ELSE <<>>)
    \o << <<a.pattern>> >>
    \o paths

\* index.ts:217-237: every argument is a token sequence.
BuildArgs(a, paths) ==
    defaultRipgrepArgs
    \o (IF ~Default(a, "case_sensitive", FALSE) THEN << <<"--ignore-case">> >> ELSE <<>>)
    \o (IF Default(a, "context_lines", 0) > 0
        THEN << <<"--context=", ToString(a.context_lines)>> >> ELSE <<>>)
    \o (IF Default(a, "max_results", DefaultMaxResults) > 0
        THEN << <<"--max-results=", ToString(Default(a, "max_results", DefaultMaxResults))>> >>
        ELSE <<>>)
    \o (IF Default(a, "max_matched_files", DefaultMaxMatchedFiles) > 0
        THEN << <<"--max-matched-files=",
                  ToString(Default(a, "max_matched_files", DefaultMaxMatchedFiles))>> >>
        ELSE <<>>)
    \o << <<a.pattern>> >>
    \o paths

\* ------------------------------------------------------- output adaptation

IsBlank(t) == t = " "

\* String.prototype.trim
RECURSIVE Trim(_)
Trim(line) ==
    IF line # <<>> /\ IsBlank(line[1]) THEN Trim(Tail(line))
    ELSE IF line # <<>> /\ IsBlank(line[Len(line)]) THEN Trim(SubSeq(line, 1, Len(line) - 1))
    ELSE line

\* The JavaScript null.
Null == [null |-> TRUE]

JsonTexts == {"M1", "M2", "B", "O", "N"}

JsonValue(t) ==
    CASE t = "M1" -> [type |-> "match", data |-> "M1"]
      [] t = "M2" -> [type |-> "match", data |-> "M2"]
      [] t = "B"  -> [type |-> "begin"]
      [] t = "O"  -> [data |-> "O"]
      [] t = "N"  -> Null

\* index.ts:299-305: JSON.parse(line), null when it throws. A JSON text may
\* have blanks around it and is one value, not two.
ParseLine(line) ==
    LET t == Trim(line)
    IN  IF Len(t) = 1 /\ t[1] \in JsonTexts THEN JsonValue(t[1]) ELSE Null

\* Variant: a record of any type is kept.
IsMatchAnyType(v) == Has(v, "type")

\* index.ts:307  result.type === "match"
IsMatch(v) == Has(v, "type") /\ v.type = "match"

\* index.ts:296-307
ParseOutput(stdout) ==
    LET lines    == SelectSeq(Split(stdout, "\n"), LAMBDA line : Trim(line) # <<>>)
        parsed   == [i \in 1..Len(lines) |-> ParseLine(lines[i])]
        nonNull  == SelectSeq(parsed, LAMBDA v : v # Null)
    IN  SelectSeq(nonNull, IsMatch)

\* Variant: exit code 1 is a failure.
ExitIsSuccessZeroOnly(code) == code = 0

\* index.ts:292  code === 0 || code === 1
ExitIsSuccess(code) == code = 0 \/ code = 1

\* index.ts:250-253: a search path with the name of the first root whose
\* scheme-stripped uri is a raw prefix of it (no rootName when there is none
\* or it has no name).
SearchPathEntry(sp, roots) ==
    LET hits == {i \in 1..Len(roots) : StartsWith(sp, StripScheme(roots[i].uri))}
    IN  IF hits = {} THEN [path |-> sp]
        ELSE LET i == CHOOSE i \in hits : \A j \in hits : i <= j
             IN  IF Has(roots[i], "name")
                 THEN [path |-> sp, rootName |-> roots[i].name]
                 ELSE [path |-> sp]

\* ----------------------------------------------------------------- state

VARIABLES
    availableRoots,   \* index.ts:21  the registry: the last root list received
    searchPc,         \* where the handleRipgrepSearch call stands
    args,             \* its arguments
    searchPaths,      \* index.ts:171 the resolved targets
    idx,              \* the validation loop's position in searchPaths
    child,            \* the engine subprocess (failed: it could not be launched)
                      \* and the promise around it (settled)
    outcome,          \* how the search call ended: a payload or a thrown error
    manualPc,         \* where the handleRefreshRoots call stands
    refreshed,        \* the payload handleRefreshRoots returned
    notifyPc,         \* where the roots-changed notification handler stands
    checks,           \* history: the validation of each search path so far
    refreshAttempts,  \* history: roots/list requests the search call has sent
    spawnCount,       \* history: subprocesses the search call has spawned
    startedEmpty,     \* history: the registry was empty when the call arrived
    lastRefresh       \* history: how the last roots/list request ended

vars == <<availableRoots, searchPc, args, searchPaths, idx, child, outcome,
          manualPc, refreshed, notifyPc, checks, refreshAttempts, spawnCount,
          startedEmpty, lastRefresh>>

searchVars == <<searchPc, args, searchPaths, idx, child, outcome, checks,
                refreshAttempts, spawnCount, startedEmpty>>

NoOutcome == [status |-> "none"]
NoChild == [state |-> "none"]
NoRefresh == [status |-> "none"]

\* The state after construction: an empty registry, nothing in flight
\* (index.ts:21).
Init ==
    /\ availableRoots = <<>>
    /\ searchPc = "idle"
    /\ args = <<>>
    /\ searchPaths = <<>>
    /\ idx = 0
    /\ child = NoChild
    /\ outcome = NoOutcome
    /\ manualPc = "idle"
    /\ refreshed = [status |-> "none"]
    /\ notifyPc = "idle"
    /\ checks = <<>>
    /\ refreshAttempts = 0
    /\ spawnCount = 0
    /\ startedEmpty = FALSE
    /\ lastRefresh = NoRefresh

\* ------------------------------------------------- requestRootsFromClient

\* Variant: the roots of a reply are pushed onto the roots held, as far as
\* MaxRoots allows.
RootsAfterPush(reply, roots) ==
    IF ~reply.ok THEN roots
    ELSE IF Len(roots) + Len(reply.roots) <= MaxRoots THEN roots \o reply.roots
    ELSE reply.roots

\* Variant: the roots of a reply that the registry does not hold are added to
\* it.
RootsAfterUnion(reply, roots) ==
    IF ~reply.ok THEN roots
    ELSE roots \o SelectSeq(reply.roots, LAMBDA r : r \notin Range(roots))

\* index.ts:118-130: the registry once the roots/list request has ended. A
\* reply replaces the whole list; a failure is caught and logged.
RootsAfter(reply, roots) == IF reply.ok THEN reply.roots ELSE roots

\* index.ts:126, 129: what requestRootsFromClient returns.
RootsReturned(reply) == IF reply.ok THEN reply.roots ELSE <<>>

\* index.ts:117-131: the end of one roots/list request, for whoever awaits
\* it: the refresh_roots call, the search call or the notification handler.
RequestRootsEnds(reply, by) ==
    /\ availableRoots' = RootsAfter(reply, availableRoots)
    /\ lastRefresh' = [status |-> "ended", reply |-> reply, by |-> by,
                       returned |-> RootsReturned(reply)]

\* ------------------------------------------------------ handleRefreshRoots

\* index.ts:133-134: a refresh_roots call arrives and requests the roots.
RefreshRootsCall ==
    /\ manualPc = "idle"
    /\ manualPc' = "waiting"
    /\ UNCHANGED <<availableRoots, searchVars, refreshed, notifyPc, lastRefresh>>

\* index.ts:134-155: the request ends and the payload is built from what
\* requestRootsFromClient returned.
RefreshRootsReply(reply) ==
    /\ manualPc = "waiting"
    /\ RequestRootsEnds(reply, "refresh_roots")
    /\ LET roots == RootsReturned(reply)
       IN  refreshed' =
             [status |-> "returned",
              failed |-> ~reply.ok,   \* history: the request has failed
              \* history: the request before this one ended the same way
              repeated |-> lastRefresh.status = "ended" /\ lastRefresh.reply = reply,
              message |-> "Roots refreshed successfully",
              availableRoots |->
                  [i \in 1..Len(roots) |->
                      roots[i] @@ [path |-> StripScheme(roots[i].uri)]],
              totalRoots |-> Len(roots)]
    /\ manualPc' = "done"
    /\ UNCHANGED <<searchVars, notifyPc>>

\* The payload has gone to the caller.
RefreshRootsReturn ==
    /\ manualPc = "done"
    /\ manualPc' = "idle"
    /\ refreshed' = [status |-> "none"]
    /\ UNCHANGED <<availableRoots, searchVars, notifyPc, lastRefresh>>

\* ------------------------------------------------ setupNotificationHandlers

\* index.ts:326-328: a roots-changed notification arrives.
RootsListChanged ==
    /\ notifyPc = "idle"
    /\ notifyPc' = "waiting"
    /\ UNCHANGED <<availableRoots, searchVars, manualPc, refreshed, lastRefresh>>

\* Variant: the handler lets the reply go by.
RootsListChangedIgnored(reply) ==
    /\ notifyPc = "waiting"
    /\ lastRefresh' = [status |-> "ended", reply |-> reply, by |-> "notification",
                       returned |-> RootsReturned(reply)]
    /\ notifyPc' = "idle"
    /\ UNCHANGED <<availableRoots, searchVars, manualPc, refreshed>>

\* index.ts:328: its roots/list request ends.
RootsListChangedReply(reply) ==
    /\ notifyPc = "waiting"
    /\ RequestRootsEnds(reply, "notification")
    /\ notifyPc' = "idle"
    /\ UNCHANGED <<searchVars, manualPc, refreshed>>

\* ------------------------------------------------------ handleRipgrepSearch

\* index.ts:170-192, and the loop of 195 entered: the targets are resolved
\* against the registry as it stands, and the first existence check is
\* awaited; or the error of the resolution is thrown.
ResolveScope(a) ==
    LET scope == ScopeOf(a, availableRoots)
    IN  IF scope.kind = "paths"
        THEN /\ searchPaths' = scope.paths
             /\ idx' = 1
             /\ searchPc' = "awaitAccess"
             /\ outcome' = NoOutcome
        ELSE /\ searchPaths' = <<>>
             /\ idx' = 0
             /\ searchPc' = "done"
             /\ outcome' =
                  IF scope.kind = "RootNotFound"
                  THEN [status |-> "thrown", error |-> "RootNotFound",
                        root_name |-> scope.root_name, available |-> scope.available]
                  ELSE [status |-> "thrown", error |-> "NoSearchPaths"]

\* index.ts:158-168: a ripgrep_search call arrives. Without a pattern it
\* throws; with an empty registry it requests the roots and waits; otherwise
\* it goes on to resolve its scope.
SearchCall(a) ==
    /\ searchPc = "idle"
    /\ args' = a
    /\ startedEmpty' = (availableRoots = <<>>)
    /\ IF ~TruthyString(a, "pattern")
       THEN /\ searchPc' = "done"
            /\ outcome' = [status |-> "thrown", error |-> "PatternRequired"]
            /\ UNCHANGED <<searchPaths, idx, refreshAttempts>>
       ELSE IF RegistryIsEmpty(availableRoots)
       THEN /\ searchPc' = "awaitRoots"
            /\ refreshAttempts' = refreshAttempts + 1
            /\ UNCHANGED <<searchPaths, idx, outcome>>
       ELSE /\ ResolveScope(a)
            /\ UNCHANGED refreshAttempts
    /\ UNCHANGED <<availableRoots, child, checks, spawnCount, manualPc, refreshed,
                   notifyPc, lastRefresh>>

\* index.ts:167: the roots/list request of the search call ends.
SearchRootsReply(reply) ==
    /\ searchPc = "awaitRoots"
    /\ RequestRootsEnds(reply, "ripgrep_search")
    /\ searchPc' = "rootsReturned"
    /\ UNCHANGED <<args, searchPaths, idx, child, outcome, checks, refreshAttempts,
                   spawnCount, startedEmpty, manualPc, refreshed, notifyPc>>

\* index.ts:168-195: the search call resumes after its await.
SearchResume ==
    /\ searchPc = "rootsReturned"
    /\ ResolveScope(args)
    /\ UNCHANGED <<availableRoots, args, child, checks, refreshAttempts, spawnCount,
                   startedEmpty, manualPc, refreshed, notifyPc, lastRefresh>>

\* index.ts:195-241: access(searchPath) has ended for the path at idx, with
\* success (exists) or not. The path is checked against the registry as it
\* stands now; then the next path is awaited, or, after the last one, the
\* arguments are built and the engine is spawned.
SearchAccessDone(exists) ==
    /\ searchPc = "awaitAccess"
    /\ LET sp      == searchPaths[idx]
           applies == BoundaryCheckApplies(availableRoots)
           within  == IsWithinRoots(sp, availableRoots)
       IN  /\ checks' = Append(checks,
                  [path |-> sp, accessOk |-> exists,
                   registryNonEmpty |-> availableRoots # <<>>,
                   boundaryChecked |-> exists /\ applies,
                   within |-> exists /\ applies /\ within])
           /\ IF ~exists
              THEN \* index.ts:213, wrapping the error of access
                   /\ outcome' = [status |-> "thrown", error |-> "PathNotFound", path |-> sp]
                   /\ searchPc' = "done"
                   /\ UNCHANGED <<idx, child, spawnCount>>
              ELSE IF applies /\ ~within
              THEN \* index.ts:209, wrapped at 213
                   /\ outcome' = [status |-> "thrown", error |-> "PathOutsideRoots", path |-> sp]
                   /\ searchPc' = "done"
                   /\ UNCHANGED <<idx, child, spawnCount>>
              ELSE IF idx < Len(searchPaths)
              THEN /\ idx' = idx + 1
                   /\ UNCHANGED <<searchPc, child, outcome, spawnCount>>
              ELSE \* index.ts:217-241, 279
                   /\ child' = [state |-> "running", settled |-> FALSE, failed |-> FALSE,
                                args |-> BuildArgs(args, searchPaths),
                                stdout |-> <<>>, stderr |-> <<>>]
                   /\ spawnCount' = spawnCount + 1
                   /\ searchPc' = "running"
                   /\ UNCHANGED <<idx, outcome>>
    /\ UNCHANGED <<availableRoots, args, searchPaths, refreshAttempts, startedEmpty,
                   manualPc, refreshed, notifyPc, lastRefresh>>

\* The response has gone to the caller and the subprocess is gone: the next
\* ripgrep_search call may arrive (one search call is followed at a time).
SearchReturn ==
    /\ searchPc = "done"
    /\ child.state \in {"none", "closed"}
    /\ searchPc' = "idle"
    /\ args' = <<>>
    /\ searchPaths' = <<>>
    /\ idx' = 0
    /\ child' = NoChild
    /\ outcome' = NoOutcome
    /\ checks' = <<>>
    /\ refreshAttempts' = 0
    /\ spawnCount' = 0
    /\ startedEmpty' = FALSE
    /\ UNCHANGED <<availableRoots, manualPc, refreshed, notifyPc, lastRefresh>>

\* ----------------------------------------------------------- executeRipgrep

engineFrame == <<availableRoots, args, searchPaths, idx, checks, refreshAttempts,
                 spawnCount, startedEmpty, manualPc, refreshed, notifyPc, lastRefresh>>

\* index.ts:283-285: the engine writes to its standard output.
StdoutData(chunk) ==
    /\ child.state = "running"
    /\ Len(child.stdout) + Len(chunk) <= MaxOut
    /\ child' = [child EXCEPT !.stdout = @ \o chunk]
    /\ UNCHANGED <<searchPc, outcome, engineFrame>>

\* index.ts:287-289: the engine writes to its standard error.
StderrData(chunk) ==
    /\ child.state = "running"
    /\ child.stderr = <<>>
    /\ child' = [child EXCEPT !.stderr = @ \o chunk]
    /\ UNCHANGED <<searchPc, outcome, engineFrame>>

\* index.ts:243-263: the payload of a search that ran.
SearchResult(results) ==
    [status |-> "ok",
     pattern |-> args.pattern,
     searchPaths |-> [i \in 1..Len(searchPaths) |->
                         SearchPathEntry(searchPaths[i], availableRoots)],
     results |-> results,
     totalMatches |-> Len(results),
     availableRoots |-> Len(availableRoots)]

\* index.ts:264-273: the payload of a search whose engine run was rejected.
SearchFailed(error) == [status |-> "isError"] @@ error

\* Variant: an engine that ends with a failure code is spawned again.
ProcessCloseRetry(code) ==
    /\ child.state \in {"running", "failedToStart"}
    /\ IF child.settled
       THEN /\ child' = [child EXCEPT !.state = "closed"] @@ [code |-> code]
            /\ UNCHANGED <<searchPc, outcome, spawnCount>>
       ELSE IF ExitIsSuccess(code)
       THEN /\ child' = [child EXCEPT !.state = "closed", !.settled = TRUE] @@ [code |-> code]
            /\ searchPc' = "done"
            /\ outcome' = SearchResult(ParseOutput(child.stdout))
            /\ UNCHANGED spawnCount
       ELSE /\ child' = [child EXCEPT !.stdout = <<>>, !.stderr = <<>>]
            /\ spawnCount' = spawnCount + 1
            /\ UNCHANGED <<searchPc, outcome>>
    /\ UNCHANGED <<availableRoots, args, searchPaths, idx, checks, refreshAttempts,
                   startedEmpty, manualPc, refreshed, notifyPc, lastRefresh>>

\* index.ts:291-316 and 241-274: the subprocess has closed with this exit
\* code. A promise that is still pending is resolved with the parsed records
\* or rejected, and the search call builds its payload; a promise that the
\* error event has settled stays as it is.
ProcessClose(code) ==
    /\ child.state \in {"running", "failedToStart"}
    /\ child' = [child EXCEPT !.state = "closed", !.settled = TRUE] @@ [code |-> code]
    /\ IF child.settled
       THEN UNCHANGED <<searchPc, outcome>>
       ELSE /\ searchPc' = "done"
            /\ outcome' =
                 IF ExitIsSuccess(code)
                 THEN SearchResult(ParseOutput(child.stdout))
                 ELSE SearchFailed([error |-> "EngineFailure", code |-> code,
                                    stderr |-> child.stderr])
    /\ UNCHANGED engineFrame

\* Variant: the promise is rejected and stays open to the close event.
ProcessErrorUnsettled ==
    /\ child.state = "running"
    /\ child.stdout = <<>> /\ child.stderr = <<>>
    /\ child' = [child EXCEPT !.state = "failedToStart", !.failed = TRUE]
    /\ searchPc' = "done"
    /\ outcome' = SearchFailed([error |-> "EngineLaunchFailure"])
    /\ UNCHANGED engineFrame

\* index.ts:318-320 and 264-273: the engine could not be launched. Node
\* emits error before the process has written anything, and close after it.
ProcessError ==
    /\ child.state = "running"
    /\ child.stdout = <<>> /\ child.stderr = <<>>
    /\ child' = [child EXCEPT !.state = "failedToStart", !.settled = TRUE, !.failed = TRUE]
    /\ searchPc' = "done"
    /\ outcome' = SearchFailed([error |-> "EngineLaunchFailure"])
    /\ UNCHANGED engineFrame

\* ---------------------------------------------------------- specifications

\* What the engine writes in one data event, in the server as a whole.
OutChunks == { <<"B", "\n", "M1">> }

\* The exit codes a close event may carry: of a process that ran, its exit
\* code; of one that failed to start, the negated errno.
CloseCodes == IF child.state = "failedToStart" THEN {-2} ELSE ExitCodes

Next ==
    \/ \E a \in SearchArgs : SearchCall(a)
    \/ \E reply \in AuthorityReplies : SearchRootsReply(reply)
    \/ SearchResume
    \/ \E exists \in BOOLEAN : SearchAccessDone(exists)
    \/ SearchReturn
    \/ \E chunk \in OutChunks : StdoutData(chunk)
    \/ StderrData(<<"E">>)
    \/ \E code \in CloseCodes : ProcessClose(code)
    \/ ProcessError
    \/ RootsListChanged
    \/ \E reply \in AuthorityReplies : RootsListChangedReply(reply)

\* The server under searches and roots-changed notifications, in any
\* interleaving. A refresh_roots call changes the registry as a notification
\* does (both end in RequestRootsEnds); its payload is followed in SpecRefresh,
\* and its interleaving with searches in SpecAll.
Spec == Init /\ [][Next]_vars

NextRefresh ==
    \/ RefreshRootsCall
    \/ \E reply \in AuthorityReplies : RefreshRootsReply(reply)
    \/ RefreshRootsReturn
    \/ RootsListChanged
    \/ \E reply \in AuthorityReplies : RootsListChangedReply(reply)

\* The registry under refresh_roots calls and roots-changed notifications.
SpecRefresh == Init /\ [][NextRefresh]_vars

\* A search of "/a" for "foo" against the registry [file:///a], its engine
\* just spawned.
InitEngine ==
    /\ availableRoots = <<RootA>>
    /\ searchPc = "running"
    /\ args = [pattern |-> "foo", path |-> <<"/", "a">>]
    /\ searchPaths = << <<"/", "a">> >>
    /\ idx = 1
    /\ child = [state |-> "running", settled |-> FALSE, failed |-> FALSE,
                args |-> BuildArgs(args, searchPaths), stdout |-> <<>>, stderr |-> <<>>]
    /\ outcome = NoOutcome
    /\ manualPc = "idle"
    /\ refreshed = [status |-> "none"]
    /\ notifyPc = "idle"
    /\ checks = << [path |-> <<"/", "a">>, accessOk |-> TRUE, registryNonEmpty |-> TRUE,
                    boundaryChecked |-> TRUE, within |-> TRUE] >>
    /\ refreshAttempts = 0
    /\ spawnCount = 1
    /\ startedEmpty = FALSE
    /\ lastRefresh = [status |-> "ended", reply |-> [ok |-> TRUE, roots |-> <<RootA>>],
                      by |-> "notification",
                      returned |-> <<RootA>>]

NextEngine ==
    \/ \E t \in OutTokens : StdoutData(<<t>>)
    \/ StderrData(<<"E">>)
    \/ \E code \in CloseCodes : ProcessClose(code)
    \/ ProcessError

\* One engine run, token by token, from its spawn to its close.
SpecEngine == InitEngine /\ [][NextEngine]_vars

\* InitEngine is a state of the server.
InitEngineUnreachable == ~InitEngine

NextArgs ==
    \/ \E a \in OptionArgs : SearchCall(a)
    \/ \E reply \in AuthorityReplies : SearchRootsReply(reply)
    \/ SearchResume
    \/ \E exists \in BOOLEAN : SearchAccessDone(exists)
    \/ \E code \in CloseCodes : ProcessClose(code)
    \/ SearchReturn

\* Searches one after the other, with every combination of options.
SpecArgs == Init /\ [][NextArgs]_vars

\* Two requests: on all roots, and on a root of a name that none bears.
LiveArgs == {[pattern |-> "foo"], [pattern |-> "foo", root_name |-> "n3"]}

NextLive ==
    \/ \E a \in LiveArgs : SearchCall(a)
    \/ \E reply \in AuthorityReplies : SearchRootsReply(reply)
    \/ SearchResume
    \/ \E exists \in BOOLEAN : SearchAccessDone(exists)
    \/ SearchReturn
    \/ \E code \in CloseCodes : ProcessClose(code)
    \/ ProcessError
    \/ RootsListChanged
    \/ \E reply \in AuthorityReplies : RootsListChangedReply(reply)

\* Searches and notifications, where what a search awaits comes in the end:
\* the authority replies to its roots request or the request fails (a
\* request of the SDK ends with a reply, an error or its timeout), the
\* continuation of the call is run, access() ends, and the engine that was
\* spawned closes.
SpecLive ==
    /\ Init
    /\ [][NextLive]_vars
    /\ WF_vars(\E reply \in AuthorityReplies : SearchRootsReply(reply))
    /\ WF_vars(SearchResume)
    /\ WF_vars(\E exists \in BOOLEAN : SearchAccessDone(exists))
    /\ WF_vars(\E code \in CloseCodes : ProcessClose(code))

\* Four requests: on "/a" and on the root named n1, and the same without a
\* pattern and with an empty one.
FewArgs ==
    {[pattern |-> "foo", path |-> <<"/", "a">>], [pattern |-> "foo", root_name |-> "n1"],
     [path |-> <<"/", "a">>], [pattern |-> "", root_name |-> "n1"]}

NextAll ==
    \/ \E a \in FewArgs : SearchCall(a)
    \/ \E reply \in AuthorityReplies : SearchRootsReply(reply)
    \/ SearchResume
    \/ \E exists \in BOOLEAN : SearchAccessDone(exists)
    \/ SearchReturn
    \/ \E code \in {0, 2} : ProcessClose(code)
    \/ RefreshRootsCall
    \/ \E reply \in AuthorityReplies : RefreshRootsReply(reply)
    \/ RefreshRootsReturn
    \/ RootsListChanged
    \/ \E reply \in AuthorityReplies : RootsListChangedReply(reply)

\* The server under the two tools and the notification, in any interleaving,
\* with four requests and an engine that writes nothing.
SpecAll == Init /\ [][NextAll]_vars

\* ------------------------------------------------------------ the claims

Last(s) == s[Len(s)]

\* The step ends the existence check of one search path.
AccessStep == Len(checks') = Len(checks) + 1

\* The step resolves the scope of the search call (index.ts:170-192): the
\* call resumes after its roots request, or arrives with a pattern at a
\* registry that holds roots.
ResolveStep ==
    \/ searchPc = "rootsReturned" /\ searchPc' # "rootsReturned"
    \/ /\ searchPc = "idle"
       /\ searchPc' \in {"awaitAccess", "done"}
       /\ TruthyString(args', "pattern")

\* The paths at the end of an argument vector built for these targets.
ArgvPaths(argv, targets) == SubSeq(argv, Len(argv) - Len(targets) + 1, Len(argv))

\* A root uri without its scheme: what follows the leading "file://".
PathOfUri(uri) == IF uri # <<>> /\ uri[1] = Scheme THEN Tail(uri) ELSE uri

IsSeqPrefix(t, s) == Len(t) <= Len(s) /\ \A i \in 1..Len(t) : s[i] = t[i]

\* p lies within a root: the components of the root's canonical path are the
\* first components of p's canonical path.
WithinSomeRoot(p, roots) ==
    \E i \in 1..Len(roots) :
        IsSeqPrefix(CanonicalSegments(PathOfUri(roots[i].uri)), CanonicalSegments(p))

\* C1: every path in the argument vector of a spawned engine has passed its
\* existence check, and has passed the boundary check whenever the registry
\* held a root at the time of its check: only a path checked against an empty
\* registry reaches the engine without a boundary check.
C1_EveryPathChecked ==
    child.state # "none" =>
        /\ ArgvPaths(child.args, searchPaths) = searchPaths
        /\ Len(checks) = Len(searchPaths)
        /\ \A i \in 1..Len(searchPaths) :
              /\ checks[i].path = searchPaths[i]
              /\ checks[i].accessOk
              /\ checks[i].registryNonEmpty => checks[i].boundaryChecked /\ checks[i].within
              /\ ~checks[i].boundaryChecked => ~checks[i].registryNonEmpty

\* An engine runs on two paths, the first checked against a registry that
\* held roots and the second against an empty one.
C1_Witness ==
    /\ child.state = "running"
    /\ Len(checks) = 2
    /\ checks[1].boundaryChecked
    /\ ~checks[2].registryNonEmpty

\* C2: the boundary check of a path against a non-empty registry is true
\* exactly when the path's canonical form has the canonical form of some root
\* as a component-wise prefix.
C2_ComponentPrefix ==
    [][ (AccessStep /\ Last(checks').boundaryChecked)
          => (Last(checks').within <=> WithinSomeRoot(Last(checks').path, availableRoots))
      ]_vars

\* C3: a search with an explicit path that exists and lies outside every root
\* fails with PathOutsideRoots when the registry holds roots, and the path is
\* searched when the registry is empty.
C3_OutsideRootsFails ==
    [][ (AccessStep /\ TruthyPath(args, "path") /\ Last(checks').accessOk
           /\ ~WithinSomeRoot(args.path, availableRoots))
          => IF availableRoots # <<>>
             THEN outcome'.status = "thrown" /\ outcome'.error = "PathOutsideRoots"
             ELSE child'.state = "running" /\ ArgvPaths(child'.args, searchPaths) = <<args.path>>
      ]_vars

\* C4: when the roots request of a refresh fails, the registry becomes empty.
C4_FailureEmptiesRegistry ==
    [][ (manualPc = "waiting" /\ manualPc' = "done" /\ refreshed'.failed)
          => availableRoots' = <<>>
      ]_vars

\* C5: what a refresh returns is what the registry holds when it returns, so
\* that refresh_roots reports the registry's roots and their number.
C5_ReturnsRegistry ==
    [][ (manualPc = "waiting" /\ manualPc' = "done")
          => /\ refreshed'.totalRoots = Len(availableRoots')
             /\ [i \in 1..Len(refreshed'.availableRoots) |-> refreshed'.availableRoots[i].uri]
                  = [i \in 1..Len(availableRoots') |-> availableRoots'[i].uri]
      ]_vars

\* C6: a request that carries a path (a non-empty string) and a root_name
\* searches exactly that path, and does not fail with RootNotFound whatever
\* the registry holds under that name.
C6_PathWins ==
    ( /\ searchPc \in {"awaitAccess", "running", "done"}
      /\ TruthyString(args, "pattern")
      /\ TruthyPath(args, "path")
      /\ Has(args, "root_name") )
    => /\ searchPaths = <<args.path>>
       /\ ~(outcome.status = "thrown" /\ outcome.error = "RootNotFound")

\* An engine runs on the path of a request whose root_name names no root of a
\* registry that holds roots.
C6_Witness ==
    /\ searchPc = "running"
    /\ TruthyPath(args, "path")
    /\ TruthyString(args, "root_name")
    /\ availableRoots # <<>>
    /\ FindRoot(availableRoots, args.root_name) = 0
    /\ ArgvPaths(child.args, searchPaths) = <<args.path>>

\* The names of the roots that have one, in registry order.
RegistryNames(roots) ==
    LET named == SelectSeq(roots, LAMBDA r : Has(r, "name"))
    IN  [i \in 1..Len(named) |-> named[i].name]

\* The names in a list joined with ", ".
ListedNames(text) == SelectSeq(text, LAMBDA t : t # ", " /\ t # "")

\* C7: a search with no path and a root_name (a non-empty string) that no
\* root of the registry bears fails with RootNotFound, which carries that name
\* and the names of the roots in the registry, and spawns nothing; when a root
\* bears the name, the target is that root's uri without its scheme.
C7_RootByName ==
    /\ []( (outcome.status = "thrown" /\ outcome.error = "RootNotFound")
             => spawnCount = 0 /\ child.state = "none" )
    /\ [][ (ResolveStep /\ ~TruthyPath(args', "path") /\ TruthyString(args', "root_name"))
             => LET rn     == args'.root_name
                    named  == {i \in 1..Len(availableRoots) :
                                  Has(availableRoots[i], "name")
                                  /\ availableRoots[i].name = rn}
                IN  IF named = {}
                    THEN /\ outcome'.status = "thrown"
                         /\ outcome'.error = "RootNotFound"
                         /\ outcome'.root_name = rn
                         /\ ListedNames(outcome'.available) = RegistryNames(availableRoots)
                         /\ spawnCount' = 0
                    ELSE /\ outcome'.status = "none"
                         /\ \E i \in named :
                              /\ \A j \in named : i <= j
                              /\ searchPaths' = <<PathOfUri(availableRoots[i].uri)>>
         ]_vars

\* A search by a name that no root bears has failed against a registry of two
\* roots, one of them named.
C7_Witness ==
    /\ searchPc = "done"
    /\ outcome.status = "thrown"
    /\ outcome.error = "RootNotFound"
    /\ outcome.root_name = "n3"
    /\ Len(availableRoots) = 2
    /\ ListedNames(outcome.available) = <<"n1">>

\* The request has a pattern and neither a path nor a root_name.
NoScopeGiven(a) ==
    TruthyString(a, "pattern") /\ ~TruthyPath(a, "path") /\ ~TruthyString(a, "root_name")

\* C8: a search with neither path nor root_name that arrives at an empty
\* registry sends exactly one roots request; if the registry is empty when the
\* search resumes, it fails with NoSearchPaths and spawns nothing; otherwise
\* its targets are the paths of the roots of the registry, in registry order.
C8_RefreshOnce ==
    /\ []( (searchPc # "idle" /\ NoScopeGiven(args) /\ startedEmpty)
             => /\ refreshAttempts = 1
                /\ (outcome.status = "thrown" /\ outcome.error = "NoSearchPaths")
                     => spawnCount = 0 /\ child.state = "none" )
    /\ [][ (ResolveStep /\ NoScopeGiven(args') /\ startedEmpty')
             => IF availableRoots = <<>>
                THEN /\ outcome'.status = "thrown"
                     /\ outcome'.error = "NoSearchPaths"
                     /\ spawnCount' = 0
                ELSE /\ outcome'.status = "none"
                     /\ searchPaths' = [i \in 1..Len(availableRoots) |->
                                           PathOfUri(availableRoots[i].uri)]
         ]_vars

\* A search without scope that arrived at an empty registry runs its engine
\* on the two roots its one roots request has supplied.
C8_Witness ==
    /\ searchPc = "running"
    /\ NoScopeGiven(args)
    /\ startedEmpty
    /\ refreshAttempts = 1
    /\ Len(searchPaths) = 2
    /\ searchPaths[1] # searchPaths[2]

\* C9: the end of the process decides the outcome: exit code 0 or 1 gives a
\* result (code 1 and no output: no match), any other exit code fails with
\* EngineFailure carrying the code and the standard error text, and a failed
\* launch fails with EngineLaunchFailure.
C9_ExitDecides ==
    (searchPc = "done" /\ child.state \in {"closed", "failedToStart"})
    => IF child.failed
       THEN outcome.status = "isError" /\ outcome.error = "EngineLaunchFailure"
       ELSE IF child.code \in {0, 1}
       THEN /\ outcome.status = "ok"
            /\ (child.code = 1 /\ child.stdout = <<>>)
                 => outcome.results = <<>> /\ outcome.totalMatches = 0
       ELSE /\ outcome.status = "isError"
            /\ outcome.error = "EngineFailure"
            /\ outcome.code = child.code
            /\ outcome.stderr = child.stderr

\* An engine has ended with exit code 1 and no output, and the search has
\* returned no match.
C9_Witness ==
    /\ searchPc = "done"
    /\ child.state = "closed"
    /\ child.code = 1
    /\ child.stdout = <<>>
    /\ outcome.status = "ok"
    /\ outcome.totalMatches = 0

\* The match records of an output, line by line from position start: a line
\* counts when its only non-blank token is a match record.
RECURSIVE MatchesFrom(_, _)
MatchesFrom(out, start) ==
    LET end  == CHOOSE e \in start..(Len(out) + 1) :
                    /\ e = Len(out) + 1 \/ out[e] = "\n"
                    /\ \A k \in start..(e - 1) : out[k] # "\n"
        text == SelectSeq(SubSeq(out, start, end - 1), LAMBDA t : t # " ")
        here == IF Len(text) = 1 /\ text[1] \in {"M1", "M2"}
                THEN << [type |-> "match", data |-> text[1]] >>
                ELSE <<>>
    IN  here \o (IF end > Len(out) THEN <<>> ELSE MatchesFrom(out, end + 1))

\* C10: the matches of a result are the records of the output that parse and
\* are of type match, in the order of the output; blank lines, lines that do
\* not parse and records of other types are dropped and fail nothing; and
\* totalMatches is the number of matches.
C10_OnlyMatchesInOrder ==
    (child.state = "closed" /\ ~child.failed /\ child.code \in {0, 1})
    => /\ outcome.status = "ok"
       /\ outcome.results = MatchesFrom(child.stdout, 1)
       /\ outcome.totalMatches = Len(outcome.results)

\* A begin record and a match record have been written, and the result holds
\* the match record alone.
C10_Witness ==
    /\ child.state = "closed"
    /\ child.stdout = <<"B", "\n", "M1">>
    /\ outcome.status = "ok"
    /\ outcome.results = << [type |-> "match", data |-> "M1"] >>
    /\ outcome.totalMatches = 1

\* The flag of an option, when the condition of the option holds.
FlagIf(cond, flag) == IF cond THEN <<flag>> ELSE <<>>

\* An option of the request, or its default when the request leaves it out.
OptionOf(a, f, d) == IF f \in DOMAIN a THEN a[f] ELSE d

\* C11: the argument vector of a spawned engine is the two base flags,
\* --ignore-case exactly when caseSensitive is false, --context=<n> exactly
\* when contextLines > 0, --max-results=<n> exactly when maxResults > 0,
\* --max-matched-files=<n> exactly when maxMatchedFiles > 0, the pattern as
\* one argument, and the resolved targets in their order; so the vector is
\* fixed by the request and its targets.
C11_ArgvOrder ==
    child.state # "none" =>
        LET argv  == child.args
            n     == Len(argv)
            k     == Len(searchPaths)
            cs    == OptionOf(args, "case_sensitive", FALSE)
            cl    == OptionOf(args, "context_lines", 0)
            mr    == OptionOf(args, "max_results", 1000)
            mf    == OptionOf(args, "max_matched_files", 100)
            flags == FlagIf(cs = FALSE, <<"--ignore-case">>)
                     \o FlagIf(cl > 0, <<"--context=", ToString(cl)>>)
                     \o FlagIf(mr > 0, <<"--max-results=", ToString(mr)>>)
                     \o FlagIf(mf > 0, <<"--max-matched-files=", ToString(mf)>>)
        IN  /\ n = 2 + Len(flags) + 1 + k
            /\ argv[1] = <<"--json">> /\ argv[2] = <<"--no-heading">>
            /\ SubSeq(argv, 3, 2 + Len(flags)) = flags
            /\ argv[n - k] = <<args.pattern>>
            /\ SubSeq(argv, n - k + 1, n) = searchPaths

\* An engine runs on two roots for a case-sensitive request with two context
\* lines, no result limit and a limit of five files.
C11_Witness ==
    /\ child.state = "running"
    /\ child.args = << <<"--json">>, <<"--no-heading">>, <<"--context=", "2">>,
                       <<"--max-matched-files=", "5">>, <<"a.*b">>,
                       <<"/", "a">>, <<"/", "b", "/">> >>

\* The six error kinds of a search.
SearchErrorKinds ==
    {"RootNotFound", "NoSearchPaths", "PathNotFound", "PathOutsideRoots",
     "EngineLaunchFailure", "EngineFailure"}

\* C12: a search that ends with any of the six error kinds ends with a
\* failure payload that is returned to the caller; the error is never thrown
\* out of the search operation.
C12_ErrorsReturned ==
    (searchPc = "done" /\ outcome.status # "ok" /\ outcome.error \in SearchErrorKinds)
    => outcome.status = "isError"

\* The existence check and the boundary check of a path have both let it by.
Passed(c) == c.accessOk /\ (c.registryNonEmpty => c.within)

\* The search has resolved its scope and every target has passed.
Validated ==
    /\ searchPaths # <<>>
    /\ Len(checks) = Len(searchPaths)
    /\ \A i \in 1..Len(checks) : Passed(checks[i])

\* C13: a search whose scope has resolved and whose targets have all passed
\* validation has spawned exactly one engine, also after the engine has
\* failed; a search that has failed to resolve its scope or to validate a
\* target has spawned none.
C13_OneSpawn ==
    /\ spawnCount = (IF Validated THEN 1 ELSE 0)
    /\ (child.state # "none") <=> (spawnCount = 1)
    /\ outcome.status = "thrown" => spawnCount = 0
    /\ outcome.status \in {"ok", "isError"} => spawnCount = 1

\* A search of two targets has ended with a failure of its engine, after
\* one spawn.
C13_Witness ==
    /\ searchPc = "done"
    /\ Len(searchPaths) = 2
    /\ outcome.status = "isError"
    /\ outcome.error = "EngineFailure"
    /\ spawnCount = 1

\* The step ends the roots request of a refresh_roots call, of a
\* notification, of a search call.
ManualEnds == manualPc = "waiting" /\ manualPc' = "done"
NotificationEnds == notifyPc = "waiting" /\ notifyPc' = "idle"
SearchRefreshEnds == searchPc = "awaitRoots" /\ searchPc' = "rootsReturned"

\* C14: when a roots request ends the way the request before it ended (the
\* same roots, or a failure again), the registry is after it what it was
\* after the request before, and the same set is returned.
C14_RefreshIdempotent ==
    [][ ( /\ ManualEnds \/ NotificationEnds \/ SearchRefreshEnds
          /\ lastRefresh.status = "ended"
          /\ lastRefresh'.reply = lastRefresh.reply )
          => /\ availableRoots' = availableRoots
             /\ lastRefresh'.returned = lastRefresh.returned
             /\ ManualEnds => refreshed'.totalRoots = Len(lastRefresh.returned)
      ]_vars

\* A refresh_roots call has got the two roots that the request before it
\* got, and the registry holds them.
C14_Witness ==
    /\ manualPc = "done"
    /\ refreshed.repeated
    /\ refreshed.totalRoots = 2
    /\ availableRoots = lastRefresh.reply.roots

\* C15: once the authority has replied to the roots request of a
\* notification, the registry holds the roots of that reply, as it does once
\* the authority has replied to the roots request of a refresh_roots call.
C15_NotificationRefreshes ==
    ( /\ lastRefresh.status = "ended"
      /\ lastRefresh.by \in {"notification", "refresh_roots"}
      /\ lastRefresh.reply.ok )
    => availableRoots = lastRefresh.reply.roots

\* The authority has replied to a notification's request with two roots,
\* which have replaced the one root held from a refresh_roots call.
C15_Witness ==
    /\ notifyPc = "idle"
    /\ lastRefresh.status = "ended"
    /\ lastRefresh.by = "notification"
    /\ lastRefresh.reply.ok
    /\ Len(lastRefresh.reply.roots) = 2
    /\ availableRoots = lastRefresh.reply.roots
    /\ manualPc = "done"
    /\ refreshed.totalRoots = 1

\* C16: the registry is empty until a roots request has ended, and changes
\* only at the end of a roots request, to the whole root list of the reply:
\* under searches, refresh_roots calls and notifications it is never a merge
\* of two replies, and no root is added to it, removed from it or changed.
C16_WholeReplace ==
    /\ []( /\ lastRefresh.status = "none" => availableRoots = <<>>
           /\ (lastRefresh.status = "ended" /\ lastRefresh.reply.ok)
                 => availableRoots = lastRefresh.reply.roots )
    /\ [][ availableRoots' # availableRoots
             => /\ ManualEnds \/ NotificationEnds \/ SearchRefreshEnds
                /\ lastRefresh'.reply.ok
                /\ availableRoots' = lastRefresh'.reply.roots
         ]_vars

\* While a search is in flight, the reply to a refresh_roots call has put
\* one root in the place of the two roots held.
C16_Witness ==
    /\ searchPc = "awaitAccess"
    /\ ~startedEmpty
    /\ lastRefresh.status = "ended"
    /\ lastRefresh.by = "refresh_roots"
    /\ Len(availableRoots) = 1
    /\ availableRoots = lastRefresh.reply.roots

\* The step spawns the engine.
SpawnStep == child.state = "none" /\ child'.state = "running"

\* C17: at the step that spawns the engine, every target lies within some
\* root of the registry as it stands then, when it holds roots; and the
\* targets of one search have all been checked against a registry that held
\* roots, or all against an empty one.
C17_ValidatedAtSpawn ==
    [][ SpawnStep
          => /\ availableRoots # <<>>
                  => \A i \in 1..Len(searchPaths) :
                        WithinSomeRoot(searchPaths[i], availableRoots)
             /\ \A i, j \in 1..Len(checks') :
                    checks'[i].registryNonEmpty = checks'[j].registryNonEmpty
      ]_vars

\* The step is one of the search call: it changes what the call holds.
SearchStep == searchVars' # searchVars

\* C18: a step of a search changes the registry only when it ends the one
\* roots request of a search that arrived at an empty registry; a search that
\* arrived at a registry holding roots sends no roots request and none of
\* its steps changes the registry, however it ends.
C18_SearchFrame ==
    /\ []( searchPc # "idle"
             => refreshAttempts = (IF startedEmpty /\ outcome # [status |-> "thrown",
                                                                 error |-> "PatternRequired"]
                                   THEN 1 ELSE 0) )
    /\ [][ (SearchStep /\ availableRoots' # availableRoots)
             => SearchRefreshEnds /\ startedEmpty /\ refreshAttempts = 1
         ]_vars

\* A search that arrived at a registry holding roots has ended with a failure
\* of its engine, without a roots request.
C18_Witness ==
    /\ searchPc = "done"
    /\ ~startedEmpty
    /\ outcome.status = "isError"
    /\ refreshAttempts = 0
    /\ availableRoots # <<>>

\* The request has no pattern, or an empty one.
NoPattern(a) == "pattern" \notin DOMAIN a \/ a.pattern = ""

\* C20: a search call without a pattern or with an empty one ends at once
\* with the pattern error: it sends no roots request, leaves the registry as
\* it is, checks no path and spawns nothing.
C20_PatternFirst ==
    /\ []( (searchPc # "idle" /\ NoPattern(args))
             => /\ searchPc = "done"
                /\ outcome = [status |-> "thrown", error |-> "PatternRequired"]
                /\ refreshAttempts = 0
                /\ checks = <<>>
                /\ searchPaths = <<>>
                /\ spawnCount = 0
                /\ child.state = "none" )
    /\ [][ (searchPc = "idle" /\ searchPc' # "idle" /\ NoPattern(args'))
             => availableRoots' = availableRoots /\ lastRefresh' = lastRefresh
         ]_vars

\* A search call with an empty pattern has been rejected at an empty
\* registry.
C20_Witness ==
    /\ searchPc = "done"
    /\ Has(args, "pattern")
    /\ args.pattern = ""
    /\ startedEmpty
    /\ outcome.status = "thrown"
    /\ outcome.error = "PatternRequired"
    /\ refreshAttempts = 0

\* C19: a search call that has arrived ends, with a result or a failure;
\* once it has ended its outcome stays what it is, also when the close event
\* of an engine comes after its error event.
C19_Completes ==
    /\ (searchPc # "idle") ~> (searchPc = "done")
    /\ []( searchPc = "done" => outcome.status \in {"ok", "isError", "thrown"} )
    /\ [][ (searchPc = "done" /\ searchPc' = "done") => outcome' = outcome ]_vars

\* An engine could not be launched and has closed after that; the search
\* has ended with the launch failure.
C19_Witness ==
    /\ searchPc = "done"
    /\ child.state = "closed"
    /\ child.failed
    /\ outcome.status = "isError"
    /\ outcome.error = "EngineLaunchFailure"

====
